---------------------------- MODULE Spec2Model ----------------------------
(***************************************************************************)
(* A model of the task store of todo.py: the Task record, its JSON         *)
(* (de)serialisation, the TodoDB operations and the write-temp-then-       *)
(* replace save, with the backing file, the temporary file and an export   *)
(* file as part of the state.                                              *)
(*                                                                         *)
(* A store operation starts with pc = "idle" and has returned when pc is   *)
(* "idle" again.  A mutating operation that reaches _save runs through the *)
(* steps of _save (open the temporary file, write it, replace the backing  *)
(* file); between those steps nothing but the next step, an I/O failure or *)
(* the end of the process can happen.                                      *)
(***************************************************************************)
EXTENDS Integers, Sequences, FiniteSets, TLC

VARIABLES
    tasks,   \* TodoDB.tasks: the in-memory collection (a sequence of Task)
    file,    \* content of the backing file at TodoDB.path
    tmp,     \* content of the temporary file at TodoDB.path + ".tmp"
    xfile,   \* content of the file at the export path
    exported,\* history: the collection as it was when export wrote xfile
    pc,      \* position of the process: "off", "idle" or a step of _save
    last,    \* the operation called last and what it gave the caller
    found,   \* the list the call made last returned (<<>> if it returned none)
    code,    \* <<status>> once main has ended the process, <<>> while it runs
    other    \* a second TodoDB over the same path, in another process

vars == <<tasks, file, tmp, xfile, exported, pc, last, found, code, other>>

---------------------------------------------------------------------------
(* Bounds of the model. *)

MaxTasks == 3     \* longest collection explored
MaxId == 3        \* largest id add and a merging import may assign
MaxEdited == 2    \* longest collection explored where every field is edited
MaxFaulty == 1    \* longest collection add builds where file and memory part

---------------------------------------------------------------------------
(* JSON values.  A leaf is null, a boolean, an integer or a string; a      *)
(* value is a leaf, a list of leaves, or the marker of a key that is not   *)
(* in the object.  Python's None, bool, int, str and list are the same     *)
(* values on the Python side (json.load and json.dump map them one to      *)
(* one).  All values have the same shape so that any two can be compared.  *)

LNull == [t |-> "null", n |-> 0, s |-> ""]
LBool(b) == [t |-> "bool", n |-> IF b THEN 1 ELSE 0, s |-> ""]
LInt(i) == [t |-> "int", n |-> i, s |-> ""]
LStr(x) == [t |-> "str", n |-> 0, s |-> x]

Lift(leaf) == [t |-> leaf.t, n |-> leaf.n, s |-> leaf.s, l |-> <<>>]
JNull == Lift(LNull)
JBool(b) == Lift(LBool(b))
JInt(i) == Lift(LInt(i))
JStr(x) == Lift(LStr(x))
JList(leaves) == [t |-> "list", n |-> 0, s |-> "", l |-> leaves]
JAbsent == [t |-> "absent", n |-> 0, s |-> "", l |-> <<>>]

Keys == {"id", "title", "description", "created_at", "due", "tags", "done"}

NoKeys == [k \in Keys |-> JAbsent]

\* An element of the root list: a JSON object (its keys among Keys; other
\* keys are never read) or something that is not an object.
JObj(o) == [t |-> "obj", o |-> o]
JNotObj == [t |-> "int", o |-> NoKeys]

\* The content of a file: no file, a text that is not (or not yet) a JSON
\* document, or a JSON document with its root.
Absent == [kind |-> "absent", root |-> "", elems |-> <<>>]
Garbage == [kind |-> "garbage", root |-> "", elems |-> <<>>]
Partial == [kind |-> "partial", root |-> "", elems |-> <<>>]
\* A temporary file that a failed or interrupted _save left behind.  Nothing
\* reads it (every _save starts by truncating it), so only its presence is
\* kept.
Leftover == [kind |-> "leftover", root |-> "", elems |-> <<>>]
Unreadable == [kind |-> "unreadable", root |-> "", elems |-> <<>>]
JsonObjectRoot == [kind |-> "json", root |-> "obj", elems |-> <<>>]
JsonListRoot(elems) == [kind |-> "json", root |-> "list", elems |-> elems]

---------------------------------------------------------------------------
(* Text.  TLC cannot take a string apart, so the characters of the strings *)
(* that are parsed are given by a table.                                   *)

Chars(x) ==
    CASE x = "" -> <<>>
      [] x = "2025-12-05" -> <<"2","0","2","5","-","1","2","-","0","5">>
      [] x = "2024-02-29" -> <<"2","0","2","4","-","0","2","-","2","9">>
      [] x = "2025-02-30" -> <<"2","0","2","5","-","0","2","-","3","0">>
      [] x = "2025-13-40" -> <<"2","0","2","5","-","1","3","-","4","0">>
      [] x = "2025-1-5" -> <<"2","0","2","5","-","1","-","5">>
      [] x = "2" -> <<"2">>
      [] x = "-1" -> <<"-","1">>
      [] x = "ab" -> <<"a","b">>
      [] x = "soon" -> <<"s","o","o","n">>
      [] x = "Buy milk" -> <<"B","u","y"," ","m","i","l","k">>
      [] x = "Pay rent" -> <<"P","a","y"," ","r","e","n","t">>
      [] x = "2 litres" -> <<"2"," ","l","i","t","r","e","s">>
      [] x = "Skimmed MILK" ->
            <<"S","k","i","m","m","e","d"," ","M","I","L","K">>
      [] x = "shopping" -> <<"s","h","o","p","p","i","n","g">>
      [] x = "home" -> <<"h","o","m","e">>
      [] x = "MILK" -> <<"M","I","L","K">>
      [] x = "milk" -> <<"m","i","l","k">>
      [] x = "Rent" -> <<"R","e","n","t">>
      [] x = "g h" -> <<"g"," ","h">>
      [] x = "gh" -> <<"g","h">>
      [] x = "quote" -> <<"q","u","o","t","e">>
      [] x = "motivation" -> <<"m","o","t","i","v","a","t","i","o","n">>
      [] x = "\"Carpe diem\" - Horace" ->
            <<"\"","C","a","r","p","e"," ","d","i","e","m","\""," ","-"," ",
              "H","o","r","a","c","e">>
      [] x = "Quote of the day from quotable.io" ->
            <<"Q","u","o","t","e"," ","o","f"," ","t","h","e"," ","d","a","y"," ",
              "f","r","o","m"," ","q","u","o","t","a","b","l","e",".","i","o">>

Digits == {"0","1","2","3","4","5","6","7","8","9"}

DigitValue(c) ==
    CASE c = "0" -> 0 [] c = "1" -> 1 [] c = "2" -> 2 [] c = "3" -> 3
      [] c = "4" -> 4 [] c = "5" -> 5 [] c = "6" -> 6 [] c = "7" -> 7
      [] c = "8" -> 8 [] c = "9" -> 9

RECURSIVE DecimalValue(_)
DecimalValue(cs) ==
    IF cs = <<>> THEN 0
    ELSE 10 * DecimalValue(SubSeq(cs, 1, Len(cs) - 1)) + DigitValue(cs[Len(cs)])

AllDigits(cs) == cs # <<>> /\ \A k \in 1..Len(cs) : cs[k] \in Digits

\* int(str): an optional sign and decimal digits.
IsIntLiteral(cs) ==
    IF cs # <<>> /\ cs[1] \in {"-", "+"}
    THEN AllDigits(Tail(cs)) ELSE AllDigits(cs)

IntLiteralValue(cs) ==
    IF cs[1] = "-" THEN 0 - DecimalValue(Tail(cs))
    ELSE IF cs[1] = "+" THEN DecimalValue(Tail(cs))
    ELSE DecimalValue(cs)

\* str(int) for the integers a title can hold in the files of this model.
IntToStr(i) == CASE i = 2 -> "2" [] i = -1 -> "-1"

---------------------------------------------------------------------------
(* The date validator: datetime.strptime(d, "%Y-%m-%d").  The format       *)
(* compiles to \d\d\d\d - (1[0-2]|0[1-9]|[1-9]) - (3[01]|[12]\d|0[1-9]|    *)
(* [1-9]| [1-9]); the whole string must be consumed, and the fields must   *)
(* denote a date of the calendar.                                          *)

MonthToken(cs) ==
    \/ Len(cs) = 2 /\ cs[1] = "1" /\ cs[2] \in {"0", "1", "2"}
    \/ Len(cs) = 2 /\ cs[1] = "0" /\ cs[2] \in Digits \ {"0"}
    \/ Len(cs) = 1 /\ cs[1] \in Digits \ {"0"}

DayToken(cs) ==
    \/ Len(cs) = 2 /\ cs[1] = "3" /\ cs[2] \in {"0", "1"}
    \/ Len(cs) = 2 /\ cs[1] \in {"1", "2"} /\ cs[2] \in Digits
    \/ Len(cs) = 2 /\ cs[1] \in {"0", " "} /\ cs[2] \in Digits \ {"0"}
    \/ Len(cs) = 1 /\ cs[1] \in Digits \ {"0"}

FieldValue(cs) == DecimalValue(SelectSeq(cs, LAMBDA c : c \in Digits))

IsLeap(y) == y % 4 = 0 /\ (y % 100 # 0 \/ y % 400 = 0)

DaysIn(y, m) ==
    IF m = 2 THEN (IF IsLeap(y) THEN 29 ELSE 28)
    ELSE IF m \in {4, 6, 9, 11} THEN 30 ELSE 31

MatchesDateFmt(cs, ml, dl) ==
    /\ Len(cs) = 4 + 1 + ml + 1 + dl
    /\ AllDigits(SubSeq(cs, 1, 4))
    /\ cs[5] = "-"
    /\ MonthToken(SubSeq(cs, 6, 5 + ml))
    /\ cs[6 + ml] = "-"
    /\ DayToken(SubSeq(cs, 7 + ml, 6 + ml + dl))
    /\ FieldValue(SubSeq(cs, 1, 4)) >= 1
    /\ FieldValue(SubSeq(cs, 7 + ml, 6 + ml + dl))
         <= DaysIn(FieldValue(SubSeq(cs, 1, 4)), FieldValue(SubSeq(cs, 6, 5 + ml)))

\* TRUE iff _validate_date(d) returns; otherwise it raises ValueError.
validate_date(d) ==
    \E ml \in {1, 2}, dl \in {1, 2} : MatchesDateFmt(Chars(d), ml, dl)


---------------------------------------------------------------------------
(* Task and its conversions. *)

Task(id, title, description, created_at, due, tags, done) ==
    [id |-> id, title |-> title, description |-> description,
     created_at |-> created_at, due |-> due, tags |-> tags, done |-> done]

\* asdict(self), as json.dump writes it.
to_serializable(t) ==
    JObj([id |-> JInt(t.id), title |-> JStr(t.title),
          description |-> JStr(t.description),
          created_at |-> JStr(t.created_at), due |-> t.due,
          tags |-> JList(t.tags), done |-> JBool(t.done)])

\* int(x) returns (bool is a subclass of int; a string must be a literal).
IntCoercible(v) ==
    \/ v.t \in {"int", "bool"}
    \/ v.t = "str" /\ IsIntLiteral(Chars(v.s))

IntOf(v) == IF v.t = "str" THEN IntLiteralValue(Chars(v.s)) ELSE v.n

\* str(x); the files of this model hold no list where a text is read.
StrOf(v) ==
    CASE v.t = "str" -> v.s
      [] v.t = "int" -> IntToStr(v.n)
      [] v.t = "bool" -> (IF v.n = 1 THEN "True" ELSE "False")
      [] v.t = "null" -> "None"

\* list(x) returns for a list and for a string (its characters).
ListCoercible(v) == v.t \in {"list", "str"}

ListOf(v) ==
    IF v.t = "list" THEN v.l
    ELSE [k \in 1..Len(Chars(v.s)) |-> LStr(Chars(v.s)[k])]

\* bool(x): the truth value of x.
BoolOf(v) ==
    CASE v.t = "bool" -> v.n = 1
      [] v.t = "int" -> v.n # 0
      [] v.t = "str" -> v.s # ""
      [] v.t = "list" -> v.l # <<>>
      [] v.t = "null" -> FALSE

Get(o, key, default) == IF o[key].t = "absent" THEN default ELSE o[key]

\* A variant of from_dict that stamps every record it reads with the time
\* of reading.
from_dict_restamped(d, now) ==
    Task(IntOf(d.o["id"]),
         StrOf(d.o["title"]),
         StrOf(Get(d.o, "description", JStr(""))),
         now,
         Get(d.o, "due", JNull),
         ListOf(Get(d.o, "tags", JList(<<>>))),
         BoolOf(Get(d.o, "done", JBool(FALSE))))

\* Task.from_dict(d) returns a Task iff FromDictOk(d); otherwise it raises
\* ValueError.  `now` is the clock's reading, used when created_at is missing.
FromDictOk(d) ==
    /\ d.t = "obj"
    /\ d.o["id"].t # "absent" /\ IntCoercible(d.o["id"])
    /\ d.o["title"].t # "absent"
    /\ ListCoercible(Get(d.o, "tags", JList(<<>>)))

from_dict(d, now) ==
    Task(IntOf(d.o["id"]),
         StrOf(d.o["title"]),
         StrOf(Get(d.o, "description", JStr(""))),
         StrOf(Get(d.o, "created_at", JStr(now))),
         Get(d.o, "due", JNull),
         ListOf(Get(d.o, "tags", JList(<<>>))),
         BoolOf(Get(d.o, "done", JBool(FALSE))))

\* [t.to_serializable() for t in self.tasks], dumped as a JSON document.
Serialize(ts) == JsonListRoot([k \in 1..Len(ts) |-> to_serializable(ts[k])])

\* json.load(f) followed by the isinstance check and the list comprehension
\* over Task.from_dict: the outcome of reading a collection from a file.
\*   "missing"   the file does not exist
\*   "oserror"   open() raises OSError
\*   "decode"    json.load raises JSONDecodeError
\*   "notlist"   the root is not a list
\*   "badtask"   some element makes Task.from_dict raise
\*   "ok"        every element is reconstructed
ReadOutcome(f) ==
    CASE f.kind = "absent" -> "missing"
      [] f.kind = "unreadable" -> "oserror"
      [] f.kind \in {"garbage", "partial", "leftover"} -> "decode"
      [] f.kind = "json" /\ f.root # "list" -> "notlist"
      [] f.kind = "json" /\ f.root = "list" ->
            IF \A k \in 1..Len(f.elems) : FromDictOk(f.elems[k])
            THEN "ok" ELSE "badtask"

ReadTasks(f, nows) == [k \in 1..Len(f.elems) |-> from_dict(f.elems[k], nows[k])]

\* A variant of _load that skips the elements it cannot reconstruct.
load_skipping(f, nows) ==
    IF ReadOutcome(f) \in {"ok", "badtask"}
    THEN LET good == SelectSeq(f.elems, FromDictOk)
         IN  [k \in 1..Len(good) |-> from_dict(good[k], nows[k])]
    ELSE <<>>

\* TodoDB._load: the collection it leaves in self.tasks.
load(f, nows) == IF ReadOutcome(f) = "ok" THEN ReadTasks(f, nows) ELSE <<>>

\* TodoDB._load never raises; it prints a warning to stderr iff the file
\* exists and cannot be loaded.
load_result(f) == IF ReadOutcome(f) \in {"ok", "missing"} THEN "ok" ELSE "warned"

Max(S) == CHOOSE m \in S : \A x \in S : x <= m

\* A variant of _next_id that counts the records instead of taking the
\* largest id.
next_id_count(ts) == Len(ts) + 1

\* TodoDB._next_id
next_id(ts) ==
    IF ts = <<>> THEN 1 ELSE Max({ts[k].id : k \in 1..Len(ts)}) + 1

\* A variant of find_by_id that, when no record has the id, falls out of the
\* loop and returns the record looked at last.
find_by_id_falling_through(ts, id) ==
    IF \E k \in 1..Len(ts) : ts[k].id = id
    THEN CHOOSE k \in 1..Len(ts) :
            ts[k].id = id /\ \A j \in 1..(k - 1) : ts[j].id # id
    ELSE Len(ts)

\* TodoDB.find_by_id: the position of the first task with this id, 0 when it
\* raises LookupError.
find_by_id(ts, id) ==
    IF \E k \in 1..Len(ts) : ts[k].id = id
    THEN CHOOSE k \in 1..Len(ts) :
            ts[k].id = id /\ \A j \in 1..(k - 1) : ts[j].id # id
    ELSE 0

\* A variant of remove that fills the place of the dropped element with the
\* last one.
remove_swapping(ts, x) ==
    LET k == CHOOSE k \in 1..Len(ts) :
                ts[k] = x /\ \A j \in 1..(k - 1) : ts[j] # x
    IN  IF k = Len(ts) THEN SubSeq(ts, 1, k - 1)
        ELSE [SubSeq(ts, 1, Len(ts) - 1) EXCEPT ![k] = ts[Len(ts)]]

\* list.remove(x): drops the first element equal to x.
remove(ts, x) ==
    LET k == CHOOSE k \in 1..Len(ts) :
                ts[k] = x /\ \A j \in 1..(k - 1) : ts[j] # x
    IN  SubSeq(ts, 1, k - 1) \o SubSeq(ts, k + 1, Len(ts))

\* str.lower() on the letters of the strings of this model.
LowerChar(c) ==
    CASE c = "A" -> "a" [] c = "B" -> "b" [] c = "C" -> "c" [] c = "D" -> "d"
      [] c = "E" -> "e" [] c = "F" -> "f" [] c = "G" -> "g" [] c = "H" -> "h"
      [] c = "I" -> "i" [] c = "J" -> "j" [] c = "K" -> "k" [] c = "L" -> "l"
      [] c = "M" -> "m" [] c = "N" -> "n" [] c = "O" -> "o" [] c = "P" -> "p"
      [] c = "Q" -> "q" [] c = "R" -> "r" [] c = "S" -> "s" [] c = "T" -> "t"
      [] c = "U" -> "u" [] c = "V" -> "v" [] c = "W" -> "w" [] c = "X" -> "x"
      [] c = "Y" -> "y" [] c = "Z" -> "z" [] OTHER -> c

Lower(cs) == [k \in 1..Len(cs) |-> LowerChar(cs[k])]

\* `needle in hay` for two strings.
Contains(hay, needle) ==
    \E i \in 0..(Len(hay) - Len(needle)) :
        SubSeq(hay, i + 1, i + Len(needle)) = needle

\* " ".join(t.tags)
RECURSIVE JoinTags(_)
JoinTags(ls) ==
    IF ls = <<>> THEN <<>>
    ELSE IF Len(ls) = 1 THEN Chars(ls[1].s)
    ELSE Chars(ls[1].s) \o <<" ">> \o JoinTags(Tail(ls))

\* A variant of search that does not lower-case the query.
search_query_as_given(ts, query) ==
    LET q == Chars(query)
    IN  SelectSeq(ts, LAMBDA t :
            \/ Contains(Lower(Chars(t.title)), q)
            \/ Contains(Lower(Chars(t.description)), q)
            \/ Contains(Lower(JoinTags(t.tags)), q))

\* TodoDB.search: the list it returns.
search(ts, query) ==
    LET q == Lower(Chars(query))
    IN  SelectSeq(ts, LAMBDA t :
            \/ Contains(Lower(Chars(t.title)), q)
            \/ Contains(Lower(Chars(t.description)), q)
            \/ Contains(Lower(JoinTags(t.tags)), q))


---------------------------------------------------------------------------
(* The inputs explored: what the clock reads, the arguments of the calls,  *)
(* the backing files a store is constructed over and the files a caller    *)
(* imports.  None is JNull, a text is JStr, a tag list is JList.           *)

Clock == "2025-12-02T09:00:00+00:00"

Obj(id, title, description, created_at, due, tags, done) ==
    JObj([id |-> id, title |-> title, description |-> description,
          created_at |-> created_at, due |-> due, tags |-> tags,
          done |-> done])

\* A well-formed object as _save writes it.
GoodObj(id, title, description) ==
    Obj(JInt(id), JStr(title), JStr(description), JStr(Clock),
        JStr("2025-12-05"), JList(<<LStr("shopping")>>), JBool(FALSE))

\* An object without a title.
NoTitleObj ==
    Obj(JInt(2), JAbsent, JAbsent, JAbsent, JAbsent, JAbsent, JAbsent)

\* An object whose id is not an integer literal.
BadIdObj ==
    Obj(JStr("soon"), JStr("Pay rent"), JAbsent, JAbsent, JAbsent, JAbsent, JAbsent)

\* An object whose tags are null.
NullTagsObj ==
    Obj(JInt(2), JStr("Pay rent"), JAbsent, JAbsent, JAbsent, JNull, JAbsent)

\* Two well-formed objects with the same id.
TwinList ==
    JsonListRoot(<<GoodObj(1, "Buy milk", ""), GoodObj(1, "Pay rent", "2 litres")>>)

BackingFiles ==
    { Absent, Garbage, JsonObjectRoot,
      JsonListRoot(<<GoodObj(1, "Buy milk", ""), NoTitleObj>>),
      JsonListRoot(<<GoodObj(1, "Buy milk", "")>>),
      TwinList }

ImportFiles ==
    { Absent, Unreadable, Garbage, JsonObjectRoot,
      JsonListRoot(<<GoodObj(1, "Buy milk", ""), BadIdObj>>),
      JsonListRoot(<<NullTagsObj>>),
      JsonListRoot(<<JNotObj>>),
      TwinList }

\* A well-formed object whose id is not positive.
ZeroIdList == JsonListRoot(<<GoodObj(0, "Pay rent", "2 litres")>>)

\* The calls of import_file: every file of ImportFiles merged and replacing,
\* and the list with the non-positive id merged.
ImportCalls ==
    [src : ImportFiles, merge : BOOLEAN] \cup {[src |-> ZeroIdList, merge |-> TRUE]}

AddArgs ==
    { [title |-> "Buy milk", description |-> "", due |-> JStr("2025-12-05"),
       tags |-> <<LStr("shopping")>>],
      [title |-> "Pay rent", description |-> "", due |-> JStr("2025-13-40"),
       tags |-> <<>>],
      [title |-> "Pay rent", description |-> "2 litres",
       due |-> JStr("2025-02-30"), tags |-> <<LStr("shopping")>>] }

EditArgs ==
    { [title |-> JNull, description |-> JNull, due |-> JNull, tags |-> JNull],
      [title |-> JStr("Pay rent"), description |-> JStr("2 litres"),
       due |-> JNull, tags |-> JNull],
      [title |-> JStr("Buy milk"), description |-> JStr(""),
       due |-> JNull, tags |-> JNull],
      [title |-> JNull, description |-> JNull, due |-> JStr("2025-12-05"),
       tags |-> JList(<<LStr("shopping")>>)],
      [title |-> JNull, description |-> JNull, due |-> JStr("2025-02-30"),
       tags |-> JList(<<>>)],
      [title |-> JStr("Pay rent"), description |-> JStr("2 litres"),
       due |-> JStr("2025-13-40"), tags |-> JNull] }

\* The ids a caller asks for: those in the collection and one that is not.
CallIds == {tasks[k].id : k \in 1..Len(tasks)} \cup {MaxId + 1}

\* One reading of the clock for each element of a file that is read.
Readings(f, clock) == [1..Len(f.elems) -> clock]

---------------------------------------------------------------------------
(* The state after construction: TodoDB(path) over a backing file.         *)

Result(op, result) == [op |-> op, result |-> result]

\* No second TodoDB has been constructed.
NoStore == [up |-> FALSE, tasks |-> <<>>]

Constructed(f, nows) ==
    /\ file = f
    /\ tasks = load(f, nows)
    /\ tmp = Absent
    /\ xfile = Absent
    /\ exported = <<>>
    /\ pc = "idle"
    /\ last = Result("load", load_result(f))
    /\ found = <<>>
    /\ code = <<>>
    /\ other = NoStore

Init == \E f \in BackingFiles : \E nows \in Readings(f, {Clock}) : Constructed(f, nows)

---------------------------------------------------------------------------
(* TodoDB._save, one step at a time.  A handler that reaches _save sets    *)
(* pc to "save_open".                                                      *)

Saving == pc \in {"save_open", "save_write", "save_replace"}

\* A variant of _save that opens the backing file itself for writing.
SaveOpenInPlace ==
    /\ pc = "save_open"
    /\ file' = Partial
    /\ pc' = "save_write"
    /\ UNCHANGED <<tasks, tmp, xfile, exported, last, found, code, other>>

\* open(tmp, "w"): the temporary file exists and is empty or incomplete.
SaveOpen ==
    /\ pc = "save_open"
    /\ tmp' = Partial
    /\ pc' = "save_write"
    /\ UNCHANGED <<tasks, file, xfile, exported, last, found, code, other>>

\* json.dump(...) and the end of the with block: the temporary file holds
\* the whole serialisation.
SaveWrite ==
    /\ pc = "save_write"
    /\ tmp' = Serialize(tasks)
    /\ pc' = "save_replace"
    /\ UNCHANGED <<tasks, file, xfile, exported, last, found, code, other>>

\* A variant of _save that returns without replacing the backing file.
SaveReplaceSkipped ==
    /\ pc = "save_replace"
    /\ pc' = "idle"
    /\ last' = [last EXCEPT !.result = "ok"]
    /\ UNCHANGED <<tasks, file, tmp, xfile, exported, found, code, other>>

\* os.replace(tmp, self.path), after which _save and the handler return.
SaveReplace ==
    /\ pc = "save_replace"
    /\ file' = tmp
    /\ tmp' = Absent
    /\ pc' = "idle"
    /\ last' = [last EXCEPT !.result = "ok"]
    /\ UNCHANGED <<tasks, xfile, exported, found, code, other>>

\* What a _save that does not finish leaves at the temporary path: what was
\* there if open() had not succeeded yet, otherwise a left-over file.
Abandoned == IF pc = "save_open" THEN tmp ELSE Leftover

\* A variant of the failing _save that puts the collection back to what the
\* backing file holds.
SaveFailRollingBack ==
    /\ Saving
    /\ tmp' = Abandoned
    /\ tasks' = load(file, [k \in 1..Len(file.elems) |-> Clock])
    /\ pc' = "idle"
    /\ last' = [last EXCEPT !.result = "IOError"]
    /\ UNCHANGED <<file, xfile, exported, found, code, other>>

\* open, write or replace raises: _save raises IOError, which the handler
\* lets through.
SaveFail ==
    /\ Saving
    /\ tmp' = Abandoned
    /\ pc' = "idle"
    /\ last' = [last EXCEPT !.result = "IOError"]
    /\ UNCHANGED <<tasks, file, xfile, exported, found, code, other>>

---------------------------------------------------------------------------
(* The operations of TodoDB.  A caller calls one when the previous call    *)
(* has returned; a caller that got IOError ends the process, as main does. *)

Ready == pc = "idle" /\ last.result # "IOError"

\* `if due:` - the date is validated when it is neither None nor "".
Truthy(due) == due.t = "str" /\ due.s # ""

\* The date check of add raises ValueError.
AddRaises(a) == Truthy(a.due) /\ ~validate_date(a.due.s)

\* The record add appends.
NewTask(ts, a, now) ==
    Task(next_id(ts), a.title, a.description, now, a.due, a.tags, FALSE)

\* TodoDB.add(title, description, due, tags)
Add(a, now) ==
    /\ Ready
    /\ IF AddRaises(a)
       THEN /\ last' = Result("add", "ValueError")
            /\ found' = <<>>
            /\ UNCHANGED <<tasks, file, tmp, xfile, exported, pc, code, other>>
       ELSE /\ Len(tasks) < MaxTasks
            /\ next_id(tasks) <= MaxId
            /\ tasks' = Append(tasks, NewTask(tasks, a, now))
            /\ pc' = "save_open"
            /\ last' = Result("add", "running")
            /\ found' = <<>>
            /\ UNCHANGED <<file, tmp, xfile, exported, code, other>>

\* TodoDB.delete(id)
Delete(id) ==
    /\ Ready
    /\ IF find_by_id(tasks, id) = 0
       THEN /\ last' = Result("delete", "LookupError")
            /\ found' = <<>>
            /\ UNCHANGED <<tasks, file, tmp, xfile, exported, pc, code, other>>
       ELSE /\ tasks' = remove(tasks, tasks[find_by_id(tasks, id)])
            /\ pc' = "save_open"
            /\ last' = Result("delete", "running")
            /\ found' = <<>>
            /\ UNCHANGED <<file, tmp, xfile, exported, code, other>>

\* A variant of edit that stamps the record it retitles with the time of the
\* edit.
EditHeadStamping(t, a) ==
    [t EXCEPT !.title = IF a.title.t = "null" THEN @ ELSE a.title.s,
              !.description = IF a.description.t = "null" THEN @
                              ELSE a.description.s,
              !.created_at = IF a.title.t = "null" THEN @ ELSE Clock]

\* The assignments of edit that precede the validation of due.
EditHead(t, a) ==
    [t EXCEPT !.title = IF a.title.t = "null" THEN @ ELSE a.title.s,
              !.description = IF a.description.t = "null" THEN @
                              ELSE a.description.s]

\* A variant of edit that takes tags left unspecified as no tags
\* (task.tags = tags or []).
EditTailClearing(t, a) ==
    [t EXCEPT !.due = IF a.due.t = "null" THEN @
                      ELSE IF a.due.s # "" THEN a.due ELSE JNull,
              !.tags = IF a.tags.t = "null" THEN <<>> ELSE a.tags.l]

\* The assignments of edit from the validation of due on.
EditTail(t, a) ==
    [t EXCEPT !.due = IF a.due.t = "null" THEN @
                      ELSE IF a.due.s # "" THEN a.due ELSE JNull,
              !.tags = IF a.tags.t = "null" THEN @ ELSE a.tags.l]

\* The date check of edit raises ValueError.
EditRaises(a) == a.due.t # "null" /\ a.due.s # "" /\ ~validate_date(a.due.s)

\* TodoDB.edit(id, title, description, due, tags)
Edit(id, a) ==
    /\ Ready
    /\ LET k == find_by_id(tasks, id) IN
       IF k = 0
       THEN /\ last' = Result("edit", "LookupError")
            /\ found' = <<>>
            /\ UNCHANGED <<tasks, file, tmp, xfile, exported, pc, code, other>>
       ELSE IF EditRaises(a)
       THEN /\ tasks' = [tasks EXCEPT ![k] = EditHead(@, a)]
            /\ last' = Result("edit", "ValueError")
            /\ found' = <<>>
            /\ UNCHANGED <<file, tmp, xfile, exported, pc, code, other>>
       ELSE /\ tasks' = [tasks EXCEPT ![k] = EditTail(EditHead(@, a), a)]
            /\ pc' = "save_open"
            /\ last' = Result("edit", "running")
            /\ found' = <<>>
            /\ UNCHANGED <<file, tmp, xfile, exported, code, other>>

\* TodoDB.toggle_done(id)
ToggleDone(id) ==
    /\ Ready
    /\ LET k == find_by_id(tasks, id) IN
       IF k = 0
       THEN /\ last' = Result("toggle_done", "LookupError")
            /\ found' = <<>>
            /\ UNCHANGED <<tasks, file, tmp, xfile, exported, pc, code, other>>
       ELSE /\ tasks' = [tasks EXCEPT ![k].done = ~@]
            /\ pc' = "save_open"
            /\ last' = Result("toggle_done", "running")
            /\ found' = <<>>
            /\ UNCHANGED <<file, tmp, xfile, exported, code, other>>

\* A variant of the merge branch that keeps the ids of the source file.
RenumberKept(new, base) == new

\* The merge branch of import_file: ids from base_id on, in source order.
Renumber(new, base) == [i \in 1..Len(new) |-> [new[i] EXCEPT !.id = base + i - 1]]

merge_tasks(ts, new) == ts \o Renumber(new, next_id(ts))

\* A variant of import_file that, like _load, falls back to an empty list of
\* new records when the source cannot be read as a collection.
ImportFileLenient(src, merge, nows) ==
    /\ Ready
    /\ LET new == IF ReadOutcome(src) = "ok" THEN ReadTasks(src, nows) ELSE <<>> IN
         IF merge
         THEN /\ Len(tasks) + Len(new) <= MaxTasks
              /\ next_id(tasks) + Len(new) - 1 <= MaxId
              /\ tasks' = merge_tasks(tasks, new)
         ELSE tasks' = new
    /\ pc' = "save_open"
    /\ last' = Result("import_file", "running")
    /\ found' = <<>>
    /\ UNCHANGED <<file, tmp, xfile, exported, code, other>>

\* TodoDB.import_file(import_path, merge) on a file with content src
ImportFile(src, merge, nows) ==
    /\ Ready
    /\ IF ReadOutcome(src) # "ok"
       THEN /\ last' = Result("import_file", "IOError")
            /\ found' = <<>>
            /\ UNCHANGED <<tasks, file, tmp, xfile, exported, pc, code, other>>
       ELSE /\ LET new == ReadTasks(src, nows) IN
              IF merge
              THEN /\ Len(tasks) + Len(new) <= MaxTasks
                   /\ next_id(tasks) + Len(new) - 1 <= MaxId
                   /\ tasks' = merge_tasks(tasks, new)
              ELSE tasks' = new
            /\ pc' = "save_open"
            /\ last' = Result("import_file", "running")
            /\ found' = <<>>
            /\ UNCHANGED <<file, tmp, xfile, exported, code, other>>

\* TodoDB.search(query)
Search(query) ==
    /\ Ready
    /\ found' = search(tasks, query)
    /\ last' = Result("search", "ok")
    /\ UNCHANGED <<tasks, file, tmp, xfile, exported, pc, code, other>>

\* TodoDB.list()
List ==
    /\ Ready
    /\ found' = tasks
    /\ last' = Result("list", "ok")
    /\ UNCHANGED <<tasks, file, tmp, xfile, exported, pc, code, other>>

\* The title main gives the task of a quote (the dash stands for the em dash
\* of the source).
QuoteTitle(content, author) == "\"" \o content \o "\" - " \o author

\* The arguments of the add that the quote command makes.
QuoteArgs(content, author) ==
    [title |-> QuoteTitle(content, author),
     description |-> "Quote of the day from quotable.io",
     due |-> JNull, tags |-> <<LStr("quote"), LStr("motivation")>>]

\* The quote command when fetch_quote_of_the_day raises: IOError for a
\* network failure, ValueError for a reply that is no JSON or has no content,
\* AttributeError for a JSON reply that is no object.
QuoteFails(exc) ==
    /\ Ready
    /\ last' = Result("quote", exc)
    /\ found' = <<>>
    /\ UNCHANGED <<tasks, file, tmp, xfile, exported, pc, code, other>>

\* TodoDB.export(export_path): the dump is written in place.
Export ==
    /\ Ready
    /\ xfile' = Serialize(tasks)
    /\ exported' = tasks
    /\ last' = Result("export", "ok")
    /\ found' = <<>>
    /\ UNCHANGED <<tasks, file, tmp, pc, code, other>>

---------------------------------------------------------------------------
(* The process. *)

\* The classes an exception is an instance of, for the exceptions that the
\* commands raise.
Classes(exc) ==
    CASE exc = "LookupError" -> {"LookupError", "Exception"}
      [] exc = "ValueError" -> {"ValueError", "Exception"}
      [] exc = "IOError" -> {"IOError", "Exception"}
      [] exc = "AttributeError" -> {"AttributeError", "Exception"}

\* The except clauses of main in their order, each with the status it exits
\* with.
Handlers ==
    << [class |-> "LookupError", status |-> 3],
       [class |-> "ValueError", status |-> 4],
       [class |-> "IOError", status |-> 5],
       [class |-> "Exception", status |-> 99] >>

\* The first clause of hs that catches exc.
Catches(hs, exc) ==
    CHOOSE k \in 1..Len(hs) :
        /\ hs[k].class \in Classes(exc)
        /\ \A j \in 1..(k - 1) : hs[j].class \notin Classes(exc)

\* A variant of main whose catch-all clause comes first.
exit_status_catch_all_first(result) ==
    IF result \in {"ok", "warned"} THEN 0
    ELSE LET hs == <<Handlers[4], Handlers[1], Handlers[2], Handlers[3]>>
         IN  hs[Catches(hs, result)].status

\* The status main ends the process with, given what the command gave it:
\* 0 when main returns, otherwise the status of the clause that catches.
exit_status(result) ==
    IF result \in {"ok", "warned"} THEN 0
    ELSE Handlers[Catches(Handlers, result)].status

\* The process ends after an operation has returned (the command-line
\* program runs one command per process).
Exit ==
    /\ pc = "idle"
    /\ pc' = "off"
    /\ tasks' = <<>>
    /\ last' = Result("exit", "ok")
    /\ found' = <<>>
    /\ code' = <<exit_status(last.result)>>
    /\ UNCHANGED <<file, tmp, xfile, exported, other>>

\* parse_known_args rejects the command line (an unknown command, an id that
\* is no integer): argparse ends the process with status 2 before a store
\* is constructed.
ParseFails ==
    /\ pc = "off"
    /\ last' = Result("parse", "SystemExit")
    /\ code' = <<2>>
    /\ UNCHANGED <<tasks, file, tmp, xfile, exported, pc, found, other>>

\* The process stops in the middle of _save.
Crash ==
    /\ Saving
    /\ tmp' = Abandoned
    /\ pc' = "off"
    /\ tasks' = <<>>
    /\ last' = Result("crash", "killed")
    /\ UNCHANGED <<file, xfile, exported, found, code, other>>

\* A variant of __init__ that, when _load falls back, writes the empty
\* collection to the backing file.
ConstructResetting(clock) ==
    /\ pc = "off"
    /\ \E nows \in Readings(file, clock) : tasks' = load(file, nows)
    /\ file' = IF load_result(file) = "warned" THEN Serialize(<<>>) ELSE file
    /\ pc' = "idle"
    /\ last' = Result("load", load_result(file))
    /\ code' = <<>>
    /\ UNCHANGED <<tmp, xfile, exported, found, other>>

\* TodoDB.__init__ in a new process: _load over the backing file as it is.
Construct(clock) ==
    /\ pc = "off"
    /\ \E nows \in Readings(file, clock) : tasks' = load(file, nows)
    /\ pc' = "idle"
    /\ last' = Result("load", load_result(file))
    /\ code' = <<>>
    /\ UNCHANGED <<file, tmp, xfile, exported, found, other>>

\* TodoDB.__init__ in a new process over another path, where the file f is:
\* from here on the model follows that store.
ConstructOver(f, clock) ==
    /\ pc = "off"
    /\ file' = f
    /\ tmp' = Absent
    /\ \E nows \in Readings(f, clock) : tasks' = load(f, nows)
    /\ pc' = "idle"
    /\ last' = Result("load", load_result(f))
    /\ code' = <<>>
    /\ UNCHANGED <<xfile, exported, found, other>>

\* The store with its backing file: every operation but export, with
\* failing saves and process stops.
Next ==
    \/ \E a \in AddArgs : Add(a, Clock)
    \/ \E id \in CallIds : Delete(id)
    \/ \E id \in CallIds, a \in EditArgs : Edit(id, a)
    \/ \E id \in CallIds : ToggleDone(id)
    \/ \E c \in ImportCalls :
          \E nows \in Readings(c.src, {Clock}) : ImportFile(c.src, c.merge, nows)
    \/ SaveOpen
    \/ SaveWrite
    \/ SaveReplace
    \/ SaveFail
    \/ Exit
    \/ Crash
    \/ Construct({Clock})

Spec == Init /\ [][Next]_vars

---------------------------------------------------------------------------
(* Export and import: a caller builds a collection, exports it and imports *)
(* the exported file into the same store or into a store over another      *)
(* path.  The records vary in every field; nothing fails.                  *)

Timestamps == {"2025-12-01T09:00:00+00:00", Clock}

\* An object with only the required keys, each of a type that is coerced.
LaxObj ==
    Obj(JStr("-1"), JInt(2), JAbsent, JAbsent, JStr("soon"), JStr("ab"), JInt(2))

BackingFilesRT == {Absent, JsonListRoot(<<LaxObj>>)}

\* The calls of add, each with the reading of the clock it is made at.
AddCallsRT ==
    { [a |-> [title |-> "Buy milk", description |-> "",
              due |-> JStr("2025-12-05"), tags |-> <<LStr("shopping")>>],
       now |-> "2025-12-01T09:00:00+00:00"],
      [a |-> [title |-> "Pay rent", description |-> "2 litres",
              due |-> JNull, tags |-> <<>>],
       now |-> Clock],
      [a |-> [title |-> "Pay rent", description |-> "",
              due |-> JStr(""), tags |-> <<LStr("home"), LStr("")>>],
       now |-> Clock] }

\* Nothing has been exported yet.
Unexported == xfile = Absent

NextRT ==
    \/ \E c \in AddCallsRT : Unexported /\ Add(c.a, c.now)
    \/ \E id \in CallIds : Unexported /\ ToggleDone(id)
    \/ Export
    \/ \E nows \in Readings(xfile, Timestamps) : ImportFile(xfile, FALSE, nows)
    \/ SaveOpen
    \/ SaveWrite
    \/ SaveReplace
    \/ Exit
    \/ Construct(Timestamps)
    \/ \E f \in BackingFilesRT : ConstructOver(f, Timestamps)

InitRT ==
    \E f \in BackingFilesRT : \E nows \in Readings(f, Timestamps) : Constructed(f, nows)

SpecRT == InitRT /\ [][NextRT]_vars

---------------------------------------------------------------------------
(* Adding and editing: a store that starts empty, with calls of add and    *)
(* edit that set each field alone.  Nothing fails but the date check.      *)

AddArgsEd ==
    { [title |-> "Buy milk", description |-> "", due |-> JStr("2025-12-05"),
       tags |-> <<LStr("shopping")>>],
      [title |-> "Pay rent", description |-> "", due |-> JStr(""),
       tags |-> <<>>],
      [title |-> "Pay rent", description |-> "", due |-> JStr("2025-13-40"),
       tags |-> <<>>] }

NoEdit == [title |-> JNull, description |-> JNull, due |-> JNull, tags |-> JNull]

EditArgsEd ==
    { NoEdit,
      [NoEdit EXCEPT !.title = JStr("Pay rent")],
      [NoEdit EXCEPT !.description = JStr("2 litres")],
      [NoEdit EXCEPT !.due = JStr("2025-12-05")],
      [NoEdit EXCEPT !.due = JStr("")],
      [NoEdit EXCEPT !.due = JStr("2025-02-30")],
      [NoEdit EXCEPT !.tags = JList(<<>>)] }

NextEd ==
    \/ \E a \in AddArgsEd : Len(tasks) < MaxEdited /\ Add(a, Clock)
    \/ \E id \in CallIds, a \in EditArgsEd : Edit(id, a)
    \/ SaveOpen
    \/ SaveWrite
    \/ SaveReplace

InitEd == Constructed(Absent, <<>>)

SpecEd == InitEd /\ [][NextEd]_vars

---------------------------------------------------------------------------
(* Searching: a store over a file of three records whose texts differ in   *)
(* case, searched between deletes and toggles.                             *)

SearchedFile ==
    JsonListRoot(<<
        Obj(JInt(1), JStr("Buy milk"), JStr(""), JStr(Clock), JNull,
            JList(<<LStr("shopping"), LStr("home")>>), JBool(FALSE)),
        Obj(JInt(2), JStr("Pay rent"), JStr("Skimmed MILK"), JStr(Clock), JNull,
            JList(<<>>), JBool(FALSE)),
        Obj(JInt(3), JStr("Pay rent"), JStr("2 litres"), JStr(Clock), JNull,
            JList(<<LStr("shopping")>>), JBool(TRUE)) >>)

Queries == {"", "MILK", "milk", "Rent", "g h", "gh", "soon"}

NextQ ==
    \/ \E query \in Queries : Search(query)
    \/ \E id \in CallIds : Delete(id)
    \/ \E id \in CallIds : ToggleDone(id)
    \/ SaveOpen
    \/ SaveWrite
    \/ SaveReplace

InitQ == \E nows \in Readings(SearchedFile, {Clock}) : Constructed(SearchedFile, nows)

SpecQ == InitQ /\ [][NextQ]_vars

---------------------------------------------------------------------------
(* Order and creation time: a store over a file of two records written     *)
(* earlier, or over no file, with every operation that keeps, appends or   *)
(* removes records.  Nothing fails.                                        *)

Earlier == "2025-12-01T09:00:00+00:00"

\* A well-formed object written at the earlier time.
EarlierObj(id, title, description) ==
    Obj(JInt(id), JStr(title), JStr(description), JStr(Earlier),
        JStr("2025-12-05"), JList(<<LStr("shopping")>>), JBool(FALSE))

EarlierFile ==
    JsonListRoot(<<EarlierObj(1, "Buy milk", ""), EarlierObj(2, "Pay rent", "2 litres")>>)

BackingFilesOrd == {Absent, EarlierFile}

AddArgsOrd ==
    { [title |-> "Buy milk", description |-> "", due |-> JStr("2025-12-05"),
       tags |-> <<LStr("shopping")>>] }

EditArgsOrd ==
    { NoEdit,
      [NoEdit EXCEPT !.title = JStr("Pay rent"), !.description = JStr("2 litres")] }

NextOrd ==
    \/ \E a \in AddArgsOrd : Add(a, Clock)
    \/ \E id \in CallIds : Delete(id)
    \/ \E id \in CallIds, a \in EditArgsOrd : Edit(id, a)
    \/ \E id \in CallIds : ToggleDone(id)
    \/ \E nows \in Readings(TwinList, {Clock}) : ImportFile(TwinList, TRUE, nows)
    \/ List
    \/ SaveOpen
    \/ SaveWrite
    \/ SaveReplace

InitOrd ==
    \E f \in BackingFilesOrd : \E nows \in Readings(f, {Clock}) : Constructed(f, nows)

SpecOrd == InitOrd /\ [][NextOrd]_vars

---------------------------------------------------------------------------
(* Failing saves under a caller that goes on: the store is used as a       *)
(* library by a caller that catches the IOError of a call and makes        *)
(* further calls on the same instance.                                     *)

\* The caller's except clause: the IOError is handled, the instance stays.
Recover ==
    /\ pc = "idle"
    /\ last.result = "IOError"
    /\ last' = [last EXCEPT !.result = "caught"]
    /\ UNCHANGED <<tasks, file, tmp, xfile, exported, pc, found, code, other>>

RentList == JsonListRoot(<<GoodObj(1, "Pay rent", "2 litres")>>)

EditArgsFault == {[NoEdit EXCEPT !.tags = JList(<<>>)]}

NextFault ==
    \/ \E a \in AddArgsOrd : Len(tasks) < MaxFaulty /\ Add(a, Clock)
    \/ \E id \in CallIds : Delete(id)
    \/ \E id \in CallIds, a \in EditArgsFault : Edit(id, a)
    \/ \E id \in CallIds : ToggleDone(id)
    \/ \E nows \in Readings(RentList, {Clock}) : ImportFile(RentList, FALSE, nows)
    \/ SaveOpen
    \/ SaveWrite
    \/ SaveReplace
    \/ SaveFail
    \/ Recover

SpecFault == InitEd /\ [][NextFault]_vars

---------------------------------------------------------------------------
(* Backing files that _load cannot take: processes that construct the      *)
(* store over such a file, use it and end.                                 *)

\* The files written at the earlier time: one that loads, and three that
\* make _load fall back.
BackingFilesLost ==
    { EarlierFile, Garbage, JsonObjectRoot,
      JsonListRoot(<<EarlierObj(1, "Buy milk", ""), NoTitleObj>>) }

\* The file is there and _load falls back to the empty collection on it.
FallsBack(f) == ReadOutcome(f) \notin {"ok", "missing"}

\* No process runs yet.
InitLost ==
    /\ file \in BackingFilesLost
    /\ pc = "off" /\ tasks = <<>> /\ tmp = Absent
    /\ xfile = Absent /\ exported = <<>> /\ found = <<>> /\ code = <<>>
    /\ last = Result("exit", "ok") /\ other = NoStore

NextLost ==
    \/ \E a \in AddArgsOrd : Len(tasks) < MaxEdited /\ Add(a, Clock)
    \/ \E id \in CallIds : Delete(id)
    \/ \E id \in CallIds : ToggleDone(id)
    \/ \E nows \in Readings(RentList, {Clock}) : ImportFile(RentList, TRUE, nows)
    \/ List
    \/ SaveOpen
    \/ SaveWrite
    \/ SaveReplace
    \/ SaveFail
    \/ Exit
    \/ Construct({Clock})

SpecLost == InitLost /\ [][NextLost]_vars

---------------------------------------------------------------------------
(* Two instances over one path.  The store of the model is instance A; B   *)
(* is a second TodoDB constructed over the same backing file.  The calls   *)
(* do not overlap: B's add runs, _save included, while A is between calls. *)

\* A later reading of the clock.
Later == "2025-12-03T09:00:00+00:00"

AddArgsOther ==
    { [title |-> "Pay rent", description |-> "2 litres", due |-> JNull,
       tags |-> <<>>],
      [title |-> "Pay rent", description |-> "", due |-> JStr("2025-13-40"),
       tags |-> <<>>] }

\* B = TodoDB(path): _load over the backing file as it is.
ConstructOther(clock) ==
    /\ pc = "idle"
    /\ ~other.up
    /\ \E nows \in Readings(file, clock) :
          other' = [up |-> TRUE, tasks |-> load(file, nows)]
    /\ last' = Result("load_other", load_result(file))
    /\ UNCHANGED <<tasks, file, tmp, xfile, exported, pc, found, code>>

\* A variant of B's add that loads the backing file again before it adds.
AddOtherReloading(a, now) ==
    /\ pc = "idle"
    /\ other.up
    /\ IF AddRaises(a)
       THEN /\ last' = Result("add_other", "ValueError")
            /\ UNCHANGED <<tasks, file, tmp, xfile, exported, pc, found, code, other>>
       ELSE /\ Len(other.tasks) < MaxTasks
            /\ next_id(other.tasks) <= MaxId
            /\ LET seen == load(file, [k \in 1..Len(file.elems) |-> now]) IN
                 other' = [other EXCEPT !.tasks = Append(seen, NewTask(seen, a, now))]
            /\ file' = Serialize(other'.tasks)
            /\ tmp' = Absent
            /\ last' = Result("add_other", "ok")
            /\ UNCHANGED <<tasks, xfile, exported, pc, found, code>>

\* B.add(title, description, due, tags), its _save running to the end: the
\* record is appended to B's collection under B's next id, and B's
\* collection replaces the backing file through the temporary file.
AddOther(a, now) ==
    /\ pc = "idle"
    /\ other.up
    /\ IF AddRaises(a)
       THEN /\ last' = Result("add_other", "ValueError")
            /\ UNCHANGED <<tasks, file, tmp, xfile, exported, pc, found, code, other>>
       ELSE /\ Len(other.tasks) < MaxTasks
            /\ next_id(other.tasks) <= MaxId
            /\ other' = [other EXCEPT
                           !.tasks = Append(@, NewTask(other.tasks, a, now))]
            /\ file' = Serialize(other'.tasks)
            /\ tmp' = Absent
            /\ last' = Result("add_other", "ok")
            /\ UNCHANGED <<tasks, xfile, exported, pc, found, code>>

NextTwo ==
    \/ \E a \in AddArgsOrd : Add(a, Clock)
    \/ \E id \in CallIds : ToggleDone(id)
    \/ SaveOpen
    \/ SaveWrite
    \/ SaveReplace
    \/ ConstructOther({Clock})
    \/ \E a \in AddArgsOther : AddOther(a, Later)

SpecTwo == InitOrd /\ [][NextTwo]_vars

---------------------------------------------------------------------------
(* The command line: every process constructs the store over some backing  *)
(* file, runs one command and ends with a status, or is ended by argparse  *)
(* before that.                                                            *)

\* The command of this process has not run yet.
Fresh == last.op = "load"

NextCLI ==
    \/ \E a \in AddArgs : Fresh /\ Add(a, Clock)
    \/ Fresh /\ List
    \/ \E id \in CallIds, a \in EditArgs : Fresh /\ Edit(id, a)
    \/ \E id \in CallIds : Fresh /\ ToggleDone(id)
    \/ \E id \in CallIds : Fresh /\ Delete(id)
    \/ \E query \in Queries : Fresh /\ Search(query)
    \/ Fresh /\ Export
    \/ \E c \in ImportCalls :
          \E nows \in Readings(c.src, {Clock}) :
             Fresh /\ ImportFile(c.src, c.merge, nows)
    \/ Fresh /\ Add(QuoteArgs("Carpe diem", "Horace"), Clock)
    \/ \E exc \in {"IOError", "ValueError", "AttributeError"} :
          Fresh /\ QuoteFails(exc)
    \/ SaveOpen
    \/ SaveWrite
    \/ SaveReplace
    \/ SaveFail
    \/ ~Fresh /\ Exit
    \/ ParseFails
    \/ \E f \in BackingFiles : ConstructOver(f, {Clock})

\* No process has run yet.
InitCLI ==
    /\ pc = "off" /\ tasks = <<>> /\ file = Absent /\ tmp = Absent
    /\ xfile = Absent /\ exported = <<>> /\ found = <<>> /\ code = <<>>
    /\ last = Result("exit", "ok") /\ other = NoStore

SpecCLI == InitCLI /\ [][NextCLI]_vars

---------------------------------------------------------------------------
(* Properties. *)

Ids(ts) == {ts[k].id : k \in 1..Len(ts)}

Mutating == {"add", "delete", "edit", "toggle_done", "import_file"}

\* A step in which the operation op is called and gets as far as _save.
Reaches_save(op) == pc = "idle" /\ pc' = "save_open" /\ last'.op = op

\* A step in which the operation op is called and raises err at once.
RaisesAtOnce(op, err) ==
    pc = "idle" /\ pc' = "idle" /\ last'.op = op /\ last'.result = err

\* C1: in every reachable state of a store the ids of the collection are
\* pairwise distinct and strictly positive.
C1_IdsUniqueAndPositive ==
    \A i, j \in 1..Len(tasks) :
        tasks[i].id > 0 /\ (i # j => tasks[i].id # tasks[j].id)

\* C2: every add that gets as far as appending gives the new record an id
\* strictly greater than every id in the collection at the moment of the
\* call, 1 if the collection is empty, and leaves the records that were
\* there in place.
C2_AddAssignsFreshId ==
    [][Reaches_save("add") =>
         /\ Len(tasks') = Len(tasks) + 1
         /\ SubSeq(tasks', 1, Len(tasks)) = tasks
         /\ \A k \in 1..Len(tasks) : tasks'[Len(tasks')].id > tasks[k].id
         /\ tasks'[Len(tasks')].id \notin Ids(tasks)
         /\ (tasks = <<>> => tasks'[Len(tasks')].id = 1)]_vars

\* C2, its case: an add has returned after appending to a collection that
\* held two records with the same id.
C2_Witness ==
    /\ pc = "idle" /\ last = Result("add", "ok")
    /\ Len(tasks) = 3 /\ tasks[1].id = tasks[2].id /\ tasks[3].id > tasks[2].id

\* C3: an add or edit that raises ValueError for its due argument leaves
\* every record of the collection and the backing file as they were.
C3_InvalidDueChangesNothing ==
    [][(RaisesAtOnce("add", "ValueError") \/ RaisesAtOnce("edit", "ValueError"))
         => tasks' = tasks /\ file' = file]_vars

\* C4: when a mutating operation has returned successfully, the backing
\* file holds the serialisation of the collection as it is in memory.
C4_ReturnedMeansSaved ==
    (pc = "idle" /\ last.op \in Mutating /\ last.result = "ok")
        => file = Serialize(tasks)

\* C4, its case: a delete has returned successfully and the file holds the
\* one record that is left.
C4_Witness ==
    /\ pc = "idle" /\ last = Result("delete", "ok")
    /\ Len(tasks) = 1 /\ file = Serialize(tasks)

\* C5: while _save runs, and when it fails or the process stops in it, the
\* backing file keeps the content it had when the save began; the only change
\* is the replace step, which puts the complete new serialisation there, so
\* the file is never a partially written one.
C5_SaveReplacesAtomically ==
    [][Saving =>
         /\ file'.kind # "partial"
         /\ \/ file' = file
            \/ /\ pc = "save_replace" /\ pc' = "idle" /\ last'.result = "ok"
               /\ file' = Serialize(tasks)]_vars

\* C5, its case: the process stopped in _save after the temporary file was
\* opened, and the backing file still holds the two records it held before.
C5_Witness ==
    /\ pc = "off" /\ last = Result("crash", "killed") /\ tmp = Leftover
    /\ file.kind = "json" /\ Len(file.elems) = 2

\* C6: a merging import that gets as far as _save leaves the existing
\* records in place and appends the records of the source in source order,
\* with the ids base, base+1, ..., base+n-1 where base is _next_id() before
\* the import, none of them the id of a record that was there.
C6_MergeRenumbers ==
    [][Reaches_save("import_file") =>
       \A c \in ImportCalls : \A nows \in Readings(c.src, {Clock}) :
         (c.merge /\ ImportFile(c.src, TRUE, nows)) =>
            LET n == Len(c.src.elems)
                m == Len(tasks)
            IN  /\ Len(tasks') = m + n
                /\ SubSeq(tasks', 1, m) = tasks
                /\ \A i \in 1..n :
                      /\ tasks'[m + i].id = next_id(tasks) + i - 1
                      /\ tasks'[m + i].id \notin Ids(tasks)
                      /\ tasks'[m + i] =
                            [from_dict(c.src.elems[i], nows[i])
                               EXCEPT !.id = tasks'[m + i].id]]_vars

\* C6, its case: a merging import of two records that both had id 1 has
\* returned, into a store that already held a record with id 1.
C6_Witness ==
    /\ pc = "idle" /\ last = Result("import_file", "ok")
    /\ Len(tasks) = 3 /\ tasks[1].id = 1 /\ tasks[2].id = 2 /\ tasks[3].id = 3
    /\ tasks[2].title = "Buy milk" /\ tasks[3].title = "Pay rent"
    /\ tasks[3].description = "2 litres"

\* C7: once delete(id) has removed a record, find_by_id(id) raises
\* LookupError.
C7_DeletedIsNotFound ==
    [][Reaches_save("delete") =>
       \A id \in CallIds : Delete(id) => find_by_id(tasks', id) = 0]_vars

\* C8: after export and an import of the exported file that replaces the
\* collection, in the same store or in a store over another path, the
\* collection equals the exported one: same length, order, ids and fields.
C8_ExportImportRoundTrip ==
    (last.op = "import_file" /\ last.result \in {"running", "ok"})
        => tasks = exported

\* C8, its case: the import has replaced the empty collection of a store
\* over a path where no file is yet by three exported records that differ in
\* every field.
C8_Witness ==
    /\ pc = "save_open" /\ last = Result("import_file", "running")
    /\ file = Absent
    /\ Len(tasks) = 3 /\ tasks[1].id = -1 /\ tasks[1].due = JStr("soon")
    /\ tasks[2].done /\ tasks[2].due = JStr("2025-12-05")
    /\ tasks[3].due = JStr("") /\ tasks[3].created_at # tasks[2].created_at

\* The file cannot be loaded as a collection: it is no JSON document, its
\* root is no list, or an element of the list is no task object.
Unloadable(f) ==
    \/ f.kind \in {"garbage", "partial", "leftover", "unreadable"}
    \/ f.kind = "json" /\ f.root # "list"
    \/ f.kind = "json" /\ f.root = "list"
         /\ \E k \in 1..Len(f.elems) : ~FromDictOk(f.elems[k])

\* C9: construction returns; over a missing file the collection is empty,
\* and over a file that cannot be loaded the collection is empty and a
\* warning has been printed.
C9_LoadFallsBackToEmpty ==
    (pc = "idle" /\ last.op = "load") =>
        /\ last.result \in {"ok", "warned"}
        /\ file.kind = "absent" => (tasks = <<>> /\ last.result = "ok")
        /\ Unloadable(file) => (tasks = <<>> /\ last.result = "warned")

\* C9, its case: the store was constructed over a list whose first element
\* is a well-formed task and whose second is not.
C9_Witness ==
    /\ pc = "idle" /\ last = Result("load", "warned") /\ tasks = <<>>
    /\ file.kind = "json" /\ file.root = "list" /\ Len(file.elems) = 2
    /\ FromDictOk(file.elems[1]) /\ ~FromDictOk(file.elems[2])

\* C10: import_file, merging or replacing, raises IOError when the source is
\* missing or unreadable or cannot be loaded as a collection, and then the
\* collection and the backing file are as they were: an import that raises
\* IOError at once changes neither, and an import that goes on to _save is
\* never one of such a source.
C10_ImportFailsWithoutEffect ==
    [][(pc = "idle" /\ last'.op = "import_file") =>
       /\ last'.result = "IOError" =>
             pc' = "idle" /\ tasks' = tasks /\ file' = file
       /\ last'.result # "IOError" =>
             \A c \in ImportCalls : \A nows \in Readings(c.src, {Clock}) :
                (c.src.kind = "absent" \/ Unloadable(c.src))
                   => ~ImportFile(c.src, c.merge, nows)]_vars

\* C10, its case: an import has raised IOError in a store that holds records.
C10_Witness ==
    /\ pc = "idle" /\ last = Result("import_file", "IOError")
    /\ Len(tasks) = 2 /\ file = Serialize(tasks)

\* What edit(id, a) may change: in the first record with this id, the fields
\* that a gives; nothing else.
EditFrame(id, a) ==
    /\ Len(tasks') = Len(tasks)
    /\ a = NoEdit => tasks' = tasks
    /\ \A k \in 1..Len(tasks) :
          IF tasks[k].id = id /\ \A j \in 1..(k - 1) : tasks[j].id # id
          THEN /\ tasks'[k].id = tasks[k].id
               /\ tasks'[k].created_at = tasks[k].created_at
               /\ tasks'[k].done = tasks[k].done
               /\ a.title = JNull => tasks'[k].title = tasks[k].title
               /\ a.description = JNull =>
                     tasks'[k].description = tasks[k].description
               /\ a.due = JNull => tasks'[k].due = tasks[k].due
               /\ a.tags = JNull => tasks'[k].tags = tasks[k].tags
          ELSE tasks'[k] = tasks[k]

\* C11: edit changes only the fields it is given: in the record it edits,
\* id, created_at and done and every field given as None keep their values,
\* every other record stays as it was, the length stays, and an edit with
\* nothing given leaves the whole collection as it was.  (Every step of edit
\* is within the frame of every call edit(id, a) that can make it.)
C11_EditChangesOnlyGivenFields ==
    [][(pc = "idle" /\ last'.op = "edit") =>
       \A id \in CallIds, a \in EditArgsEd :
          EditFrame(id, a) \/ ~Edit(id, a)]_vars

\* C11, its case: an edit that gave only a description has returned; the
\* record keeps its title, due and tags, and the other record is as add
\* made it.
C11_Witness ==
    /\ pc = "idle" /\ last = Result("edit", "ok") /\ Len(tasks) = 2
    /\ tasks[1].title = "Buy milk" /\ tasks[1].description = "2 litres"
    /\ tasks[1].due = JStr("2025-12-05") /\ tasks[1].tags = <<LStr("shopping")>>
    /\ tasks[2].title = "Pay rent" /\ tasks[2].description = ""

\* C12: in a store that started empty, after any calls of add and edit, the
\* due of every record is None or a string that _validate_date accepts.
C12_DueAbsentOrValid ==
    \A k \in 1..Len(tasks) :
        \/ tasks[k].due = JNull
        \/ tasks[k].due.t = "str" /\ validate_date(tasks[k].due.s)

\* The lower-cased query is a substring of the lower-cased title, of the
\* lower-cased description or of the lower-cased space-joined tags of t.
SearchMatches(t, query) ==
    \/ Contains(Lower(Chars(t.title)), Lower(Chars(query)))
    \/ Contains(Lower(Chars(t.description)), Lower(Chars(query)))
    \/ Contains(Lower(JoinTags(t.tags)), Lower(Chars(query)))

Returned == {found'[i] : i \in 1..Len(found')}

\* C13: search(q) returns exactly the records that match q without regard to
\* case, in the order of the collection; search("") returns the whole
\* collection; "MILK" finds the record titled "Buy milk" and the one
\* described as "Skimmed MILK" and no other; "g h" finds the record tagged
\* shopping, home across the joining space and "gh" finds none; and search
\* changes neither the collection nor the backing file.
C13_SearchReturnsMatchesInOrder ==
    [][(pc = "idle" /\ last'.op = "search") =>
       \A query \in Queries :
         Search(query) =>
            LET M == {k \in 1..Len(tasks) : SearchMatches(tasks[k], query)}
            IN  /\ Len(found') = Cardinality(M)
                /\ \A i \in 1..Len(found') :
                      found'[i] =
                        tasks[CHOOSE k \in M : Cardinality({j \in M : j < k}) = i - 1]
                /\ query = "" => found' = tasks
                /\ query = "MILK" =>
                      \A k \in 1..Len(tasks) :
                         tasks[k] \in Returned <=>
                            \/ tasks[k].title = "Buy milk"
                            \/ tasks[k].description = "Skimmed MILK"
                /\ query = "g h" =>
                      \A k \in 1..Len(tasks) :
                         tasks[k] \in Returned <=>
                            tasks[k].tags = <<LStr("shopping"), LStr("home")>>
                /\ query = "gh" => found' = <<>>
                /\ tasks' = tasks /\ file' = file /\ pc' = "idle"]_vars

\* C13, its case: a search has returned the first two of three records, in
\* their order, and left out the third.
C13_Witness ==
    /\ pc = "idle" /\ last = Result("search", "ok")
    /\ Len(tasks) = 3 /\ found = <<tasks[1], tasks[2]>>
    /\ tasks[1].title = "Buy milk" /\ tasks[2].description = "Skimmed MILK"

\* tasks' is tasks without the record at one position.
OneRemoved ==
    /\ Len(tasks') = Len(tasks) - 1
    /\ \E j \in 1..Len(tasks) :
          /\ \A k \in 1..(j - 1) : tasks'[k] = tasks[k]
          /\ \A k \in j..Len(tasks') : tasks'[k] = tasks[k + 1]

\* C14: the created_at of a record that is in the store does not change: an
\* add, edit, toggle_done or merging import leaves the created_at at every
\* position as it was, a delete leaves the created_at of the records it
\* keeps, and no other step of a running store touches the collection.
C14_CreatedAtNeverChanges ==
    [][pc # "off" /\ pc' # "off" =>
         IF Reaches_save("delete")
         THEN \E j \in 1..Len(tasks) :
                 /\ Len(tasks') = Len(tasks) - 1
                 /\ \A k \in 1..(j - 1) :
                       tasks'[k].created_at = tasks[k].created_at
                 /\ \A k \in j..Len(tasks') :
                       tasks'[k].created_at = tasks[k + 1].created_at
         ELSE /\ Len(tasks') >= Len(tasks)
              /\ \A k \in 1..Len(tasks) :
                    tasks'[k].created_at = tasks[k].created_at]_vars

\* C14, its case: a record loaded with the earlier creation time has been
\* retitled by edit, in a collection that also holds a record created later;
\* it still carries the earlier time.
C14_Witness ==
    /\ pc = "idle" /\ last = Result("edit", "ok") /\ Len(tasks) = 3
    /\ tasks[1].title = "Pay rent" /\ tasks[1].created_at = Earlier
    /\ tasks[3].created_at = Clock

\* C15: every operation keeps the order of the records: add and a merging
\* import keep the collection as a prefix and put the new records after it,
\* delete removes the record at one position and keeps the others in their
\* order, edit and toggle_done keep every record at its position (same id
\* and created_at, and for toggle_done every field but done), and list
\* returns the collection as it is.
C15_OrderIsPreserved ==
    [][pc = "idle" /\ pc' # "off" =>
         /\ Reaches_save("add") =>
               Len(tasks') = Len(tasks) + 1 /\ SubSeq(tasks', 1, Len(tasks)) = tasks
         /\ Reaches_save("import_file") =>
               Len(tasks') = Len(tasks) + Len(TwinList.elems)
               /\ SubSeq(tasks', 1, Len(tasks)) = tasks
               /\ tasks'[Len(tasks) + 1].title = "Buy milk"
               /\ tasks'[Len(tasks) + 2].title = "Pay rent"
         /\ Reaches_save("delete") => OneRemoved
         /\ last'.op \in {"edit", "toggle_done"} =>
               /\ Len(tasks') = Len(tasks)
               /\ \A k \in 1..Len(tasks) :
                     /\ tasks'[k].id = tasks[k].id
                     /\ tasks'[k].created_at = tasks[k].created_at
                     /\ last'.op = "toggle_done" =>
                           [tasks'[k] EXCEPT !.done = tasks[k].done] = tasks[k]
         /\ last'.op = "list" => found' = tasks /\ tasks' = tasks]_vars

\* C15, its case: the middle one of three records has been deleted and list
\* has returned the two that are left, the first before the third.
C15_Witness ==
    /\ pc = "idle" /\ last = Result("list", "ok") /\ found = tasks
    /\ Len(tasks) = 2 /\ tasks[1].id = 1 /\ tasks[2].id = 3
    /\ tasks[1].created_at = Earlier /\ tasks[2].created_at = Clock

\* C17: delete, edit and toggle_done called with an id that no record has
\* raise LookupError, and a call that raises LookupError changes nothing: the
\* collection, the backing file and the temporary file are as they were and
\* no save is begun.
C17_UnknownIdChangesNothing ==
    [][(pc = "idle" /\ last'.op \in {"delete", "edit", "toggle_done"}) =>
         /\ \A id \in CallIds \ Ids(tasks) :
               /\ Delete(id) => last'.result = "LookupError"
               /\ ToggleDone(id) => last'.result = "LookupError"
               /\ \A a \in EditArgsOrd : Edit(id, a) => last'.result = "LookupError"
         /\ last'.result = "LookupError" =>
               /\ tasks' = tasks /\ file' = file /\ tmp' = tmp /\ pc' = "idle"
               /\ \E id \in CallIds \ Ids(tasks) :
                     \/ Delete(id)
                     \/ ToggleDone(id)
                     \/ \E a \in EditArgsOrd : Edit(id, a)]_vars

\* C17, its case: toggle_done has raised LookupError in a store that holds
\* two records, which are in the backing file as they are in memory.
C17_Witness ==
    /\ pc = "idle" /\ last = Result("toggle_done", "LookupError")
    /\ Len(tasks) = 2 /\ file = Serialize(tasks)

\* C16: when main ends the process after a command, the status is 0 if the
\* command returned, 3 if it raised LookupError, 4 for ValueError, 5 for
\* IOError and 99 for any other exception; argparse ends the process with 2
\* for an unknown command; and the status is 0 only if the command returned.
C16_ExitStatusOfOutcome ==
    [][/\ (pc = "idle" /\ pc' = "off") =>
            /\ last.result = "ok" => code' = <<0>>
            /\ last.result = "LookupError" => code' = <<3>>
            /\ last.result = "ValueError" => code' = <<4>>
            /\ last.result = "IOError" => code' = <<5>>
            /\ last.result \notin {"ok", "LookupError", "ValueError", "IOError"}
                  => code' = <<99>>
            /\ code' = <<0>> => last.result = "ok"
       /\ (pc = "off" /\ pc' = "off") => code' = <<2>>]_vars

\* C16, its case: a process whose command raised ValueError has ended with
\* status 4, its backing file holding one record.
C16_Witness ==
    /\ pc = "off" /\ code = <<4>> /\ last = Result("exit", "ok")
    /\ file.kind = "json" /\ Len(file.elems) = 1

C19_FallbackLosesTheFile ==
    [][/\ (pc = "off" /\ pc' = "idle") => file' = file /\ tmp' = tmp
       /\ (FallsBack(file) /\ pc = "idle") =>
            \A k \in 1..Len(tasks) : tasks[k].created_at = Clock
       /\ (FallsBack(file) /\ file' # file) =>
            /\ pc = "save_replace" /\ last'.result = "ok"
            /\ file' = Serialize(tasks')
            /\ tasks' # <<>>
            /\ \A k \in 1..Len(tasks') : tasks'[k].created_at = Clock
            /\ \A j \in 1..Len(file.elems), k \in 1..Len(file'.elems) :
                  file.elems[j] # file'.elems[k]]_vars

\* C19, its case: the store fell back on a file with one good and one
\* malformed record, an add was made, and its save is about to replace the
\* file, which is still as it was, with the one new record.
C19_Witness ==
    /\ pc = "save_replace" /\ last.op = "add"
    /\ file = JsonListRoot(<<EarlierObj(1, "Buy milk", ""), NoTitleObj>>)
    /\ tmp = Serialize(tasks)
    /\ Len(tasks) = 1 /\ tasks[1].id = 1 /\ tasks[1].created_at = Clock

\* C20: when B holds what the backing file held before A's last add, which
\* returned and is in the file, an add of B that passes validation returns
\* too, gives its record the id of A's record, and leaves a backing file
\* that is B's collection and holds no record equal to A's.
C20_SecondWriterLosesFirstUpdate ==
    [][(/\ last = Result("add", "ok") /\ last'.op = "add_other"
        /\ tasks = Append(other.tasks, tasks[Len(tasks)])
        /\ file = Serialize(tasks)
        /\ last'.result # "ValueError")
       => LET mine == tasks[Len(tasks)]
              theirs == other'.tasks[Len(other'.tasks)]
          IN  /\ last'.result = "ok"
              /\ Len(other'.tasks) = Len(tasks)
              /\ theirs.id = mine.id
              /\ tasks' = tasks
              /\ file' = Serialize(other'.tasks)
              /\ \A k \in 1..Len(file'.elems) :
                    file'.elems[k] # to_serializable(mine)]_vars

\* C20, its case: over a file of two records A added a third and then B,
\* constructed before that, added its own; both have id 3, and the file
\* holds B's collection.
C20_Witness ==
    /\ last = Result("add_other", "ok")
    /\ Len(tasks) = 3 /\ Len(other.tasks) = 3
    /\ tasks[3].id = 3 /\ other.tasks[3].id = 3
    /\ tasks[3].title = "Buy milk" /\ other.tasks[3].title = "Pay rent"
    /\ SubSeq(tasks, 1, 2) = SubSeq(other.tasks, 1, 2)
    /\ file = Serialize(other.tasks)

============================================================================
